---- MODULE Spec2Model ----
(***************************************************************************)
(* Model of src/app.py: the reminder store, the intake route, the          *)
(* send_due_reminders job and the interval scheduler that runs it in up to *)
(* max_instances simultaneous instances.                                   *)
(*                                                                         *)
(* Time is a coarse integer clock.  One unit of the clock is the offset of *)
(* the configured zone TZ from UTC, so that the conversion of the form's   *)
(* local time to UTC is a subtraction and not the identity.  Scheduler     *)
(* ticks are events of their own: how long a cycle takes, measured in      *)
(* ticks, is not fixed by the code, so any interleaving of ticks and of    *)
(* the steps of the cycles in flight is a behaviour.                       *)
(***************************************************************************)
EXTENDS Integers, Sequences, FiniteSets, TLC

\* ------------------------------------------------------------ bounds
MaxReminders == 2      \* primary keys handed out: 1..MaxReminders
MaxTime == 2           \* the clock runs over 0..MaxTime
MaxOk == 2             \* successful send_email calls counted per reminder

\* --------------------------------------------------- program constants
max_instances == 3     \* scheduler.add_job(..., max_instances=3)
UtcOffset == 1         \* TZ: local time = UTC + UtcOffset (one clock unit)

Ids == 1..MaxReminders
Slots == 1..max_instances

\* A row that is not in the table.
NoRow == [present |-> FALSE]

VARIABLES
  now,          \* datetime.now(timezone.utc), coarse
  running,      \* the process is up and scheduler.running
  credentials,  \* SENDGRID_API_KEY and EMAIL_FROM are both set
  store,        \* table reminder: id -> row or NoRow
  nextId,       \* the next primary key
  cyc,          \* the running instances of send_due_reminders, oldest first
  oks,          \* per reminder: send_email calls that returned True
  raised,       \* some db.session.commit() of the job has raised
  netUsed,      \* requests.post has been called by the job
  call          \* the last call of send_email made on its own: its outcome

vars ==
  <<now, running, credentials, store, nextId, cyc, oks, raised, netUsed, call>>

\* ---------------------------------------------------------------- utils

Blank(ch) == ch = " "

\* [^@\s]+ : a non-empty run without "@" and without white space
Plain(s) == Len(s) >= 1 /\ \A k \in 1..Len(s) : s[k] # "@" /\ ~Blank(s[k])

\* re.fullmatch(r"[^@\s]+@[^@\s]+\.[^@\s]+", email)
valid_email(email) ==
  \E i \in 1..Len(email) : \E j \in 1..Len(email) :
     /\ i < j
     /\ email[i] = "@"
     /\ email[j] = "."
     /\ Plain(SubSeq(email, 1, i - 1))
     /\ Plain(SubSeq(email, i + 1, j - 1))
     /\ Plain(SubSeq(email, j + 1, Len(email)))

\* What requests.post can end in: a status code, or 0 for a raised exception.
Responses == {200, 202, 500, 0}

\* The status check left out: any response that arrives counts as sent.
send_email_AnyStatus(creds, resp) ==
  IF ~creds THEN FALSE
  ELSE resp # 0

\* Whether send_email gets as far as requests.post: the check of
\* SENDGRID_API_KEY and EMAIL_FROM returns before it.
Posted(creds) == creds

\* send_email: False without credentials (no request made); otherwise True
\* exactly for a 200 or 202 response, False for any other and for a raise.
send_email(creds, resp) ==
  IF ~creds THEN FALSE
  ELSE IF resp = 0 THEN FALSE
  ELSE resp \in {200, 202}

\* ---------------------------------------------------------------- model

Reminder(email, subject, message, remind_at_utc) ==
  [present |-> TRUE, email |-> email, subject |-> subject,
   message |-> message, remind_at_utc |-> remind_at_utc, sent |-> FALSE]

Present(st, r) == st[r].present

\* The query without filter_by(sent=False).
IsDue_NoSentFilter(row, now_utc) ==
  /\ row.present
  /\ row.remind_at_utc <= now_utc

\* The query with remind_at_utc < now_utc.
IsDue_Strict(row, now_utc) ==
  /\ row.present
  /\ row.sent = FALSE
  /\ row.remind_at_utc < now_utc

\* Reminder.query.filter_by(sent=False).filter(remind_at_utc <= now_utc)
IsDue(row, now_utc) ==
  /\ row.present
  /\ row.sent = FALSE
  /\ row.remind_at_utc <= now_utc

RECURSIVE RowsFrom(_, _, _)
RowsFrom(st, now_utc, r) ==
  IF r > MaxReminders THEN <<>>
  ELSE (IF IsDue(st[r], now_utc) THEN <<r>> ELSE <<>>)
         \o RowsFrom(st, now_utc, r + 1)

\* .all(): the rows of the table scan, in primary key order
DueQuery(st, now_utc) == RowsFrom(st, now_utc, 1)

\* ------------------------------------------------------------ the form

ValidEmail == <<"a", "@", "b", ".", "c">>

NoTime == [given |-> FALSE, iso |-> FALSE, local |-> 0]
BadTime == [given |-> TRUE, iso |-> FALSE, local |-> 0]
LocalTime(l) == [given |-> TRUE, iso |-> TRUE, local |-> l]

Form(email, subject, message, remind_at) ==
  [email |-> email, subject |-> subject, message |-> message,
   remind_at |-> remind_at]

\* The forms posted: well-formed ones for every local time and both kinds
\* of subject, and one malformed in each way the route checks.
Forms ==
  { Form(ValidEmail, "s", "m", LocalTime(l)) :
      l \in UtcOffset..(MaxTime + UtcOffset) }
  \cup { Form(ValidEmail, "", "m", LocalTime(MaxTime + UtcOffset)),
         Form(<<>>, "s", "m", LocalTime(MaxTime + UtcOffset)),
         Form(ValidEmail, "s", "", LocalTime(MaxTime + UtcOffset)),
         Form(ValidEmail, "s", "m", NoTime),
         Form(ValidEmail, "s", "m", BadTime),
         Form(<<"a", "@", "b">>, "s", "m", LocalTime(MaxTime + UtcOffset)),
         Form(<<"a", " ", "@", "b", ".", "c">>, "s", "m",
              LocalTime(MaxTime + UtcOffset)) }

\* local_dt.replace(tzinfo=ZoneInfo(TZ)).astimezone(timezone.utc)
ToUtc(local) == local - UtcOffset

\* An instance of the job that has been submitted and has not run yet.
NewCycle ==
  [pc |-> "scan", due |-> <<>>, idx |-> 1,
   expired |-> FALSE, seenSent |-> FALSE, why |-> "none"]

\* An instance whose function has returned: its locals are gone.
DoneCycle == [NewCycle EXCEPT !.pc = "done"]

Init ==
  /\ now = 0
  /\ running = TRUE
  /\ credentials \in BOOLEAN
  /\ store = [r \in Ids |-> NoRow]
  /\ nextId = 1
  /\ cyc = <<>>
  /\ oks = [r \in Ids |-> 0]
  /\ raised = FALSE
  /\ netUsed = FALSE
  /\ call = {}

\* The wall clock moves on.
Advance ==
  /\ now < MaxTime
  /\ now' = now + 1
  /\ UNCHANGED <<running, credentials, store, nextId, cyc, oks, raised,
                  netUsed, call>>

\* The check of line 119 written with < : a due time equal to now passes.
Accepted_AllowsNow(f, t) ==
  /\ Len(f.email) > 0 /\ f.message # "" /\ f.remind_at.given
  /\ valid_email(f.email)
  /\ f.remind_at.iso
  /\ ~(ToUtc(f.remind_at.local) < t)

\* Whether POST / with this form gets as far as db.session.add.
Accepted(f, t) ==
  /\ Len(f.email) > 0 /\ f.message # "" /\ f.remind_at.given
  /\ valid_email(f.email)
  /\ f.remind_at.iso
  /\ ~(ToUtc(f.remind_at.local) <= t)

\* index(), POST: the form passes every check and the row is committed.
PostCreate(f) ==
  /\ running
  /\ Accepted(f, now)
  /\ nextId <= MaxReminders
  /\ store' = [store EXCEPT ![nextId] =
                 Reminder(f.email,
                          IF f.subject = "" THEN "Reminder" ELSE f.subject,
                          f.message, ToUtc(f.remind_at.local))]
  /\ nextId' = nextId + 1
  /\ UNCHANGED <<now, running, credentials, cyc, oks, raised, netUsed, call>>

\* index(), POST: one of the checks flashes a message and redirects.
PostReject(f) ==
  /\ running
  /\ ~Accepted(f, now)
  /\ UNCHANGED vars

\* delete(id) of the deletion collaborator: removes the row.
Delete(r) ==
  /\ running
  /\ Present(store, r)
  /\ store' = [store EXCEPT ![r] = NoRow]
  /\ UNCHANGED <<now, running, credentials, nextId, cyc, oks, raised,
                  netUsed, call>>

\* ------------------------------------------------------- the scheduler

\* add_job without max_instances enforced: every firing submits the job.
Tick_NoLimit ==
  /\ running
  /\ cyc' = Append(cyc, NewCycle)
  /\ UNCHANGED <<now, running, credentials, store, nextId, oks, raised,
                  netUsed, call>>

\* The interval trigger fires.  The job is submitted unless max_instances
\* instances of it are running, in which case this run is skipped.
Tick ==
  /\ running
  /\ IF Len(cyc) < max_instances
     THEN cyc' = Append(cyc, NewCycle)
     ELSE UNCHANGED cyc
  /\ UNCHANGED <<now, running, credentials, store, nextId, oks, raised,
                  netUsed, call>>

\* ---------------------------------------------------- send_due_reminders

\* Eligibility decided again at every row: the rows that have become due
\* since the query join the list the loop goes through.
NextRow_Requery(cy) ==
  LET more == SelectSeq(DueQuery(store, now),
                        LAMBDA r : \A k \in 1..Len(cy.due) : cy.due[k] # r)
      due == cy.due \o more
  IN  IF cy.idx + 1 > Len(due) THEN DoneCycle
      ELSE [cy EXCEPT !.due = due, !.idx = cy.idx + 1, !.pc = "send"]

\* A loop that does not move on: the row it is at is attempted again.
NextRow_NoAdvance(cy) == [cy EXCEPT !.pc = "send"]

\* for r in due: the loop moves to the next row, or ends.
NextRow(cy) ==
  IF cy.idx + 1 > Len(cy.due) THEN DoneCycle
  ELSE [cy EXCEPT !.idx = cy.idx + 1, !.pc = "send"]

\* The try/except of lines 139 and 152 left out: the exception leaves
\* send_due_reminders.
Raise_Propagates(cy, why) == [cy EXCEPT !.pc = "uncaught", !.why = why]

\* except Exception as e: logger.error(...); the job returns.
Raise(cy, why) == [cy EXCEPT !.pc = "except", !.why = why]

\* now_utc = datetime.now(timezone.utc); due = Reminder.query...all()
AfterQuery(cy, st, t) ==
  LET due == DueQuery(st, t)
  IN  IF due = <<>> THEN DoneCycle
      ELSE [cy EXCEPT !.due = due, !.idx = 1, !.pc = "send"]

\* The query runs (queryFails: the database raises).
Scan(c, queryFails) ==
  /\ c <= Len(cyc)
  /\ cyc[c].pc = "scan"
  /\ cyc' = [cyc EXCEPT ![c] =
               IF queryFails THEN Raise(cyc[c], "query")
               ELSE AfterQuery(cyc[c], store, now)]
  /\ UNCHANGED <<now, running, credentials, store, nextId, oks, raised,
                  netUsed, call>>

\* The row the loop is at.
Cur(cy) == cy.due[cy.idx]

\* r.email of a row of this session: after a commit of the session the row
\* is expired and is read again, which raises when the row is gone.
RowGone(cy, st) == cy.expired /\ ~Present(st, Cur(cy))

\* r.sent as the session holds it: as loaded by the query (False), or as
\* read again after a commit of the session.
SeenSent(cy, st) == IF cy.expired THEN st[Cur(cy)].sent ELSE FALSE

\* if send_email(...): the branch taken on True
OnSuccess(cy, st) == [cy EXCEPT !.pc = "commit", !.seenSent = SeenSent(cy, st)]

\* The else branch missing: a False falls through to r.sent = True.
OnFailure_FallsThrough(cy) == [cy EXCEPT !.pc = "commit", !.seenSent = FALSE]

\* else: logger.error(...): the branch taken on False
OnFailure(cy) == NextRow(cy)

\* Line 146 for the current row: the row's fields are read and send_email
\* is called; resp is what the HTTP request ends in.
Send(c, resp) ==
  /\ c <= Len(cyc)
  /\ cyc[c].pc = "send"
  /\ LET cy == cyc[c]
         r == Cur(cy)
         ok == send_email(credentials, resp)
     IN  IF RowGone(cy, store)
         THEN /\ cyc' = [cyc EXCEPT ![c] = Raise(cy, "refresh")]
              /\ UNCHANGED <<oks, netUsed>>
         ELSE /\ netUsed' = (netUsed \/ Posted(credentials))
              /\ IF ok
                 THEN /\ oks[r] < MaxOk
                      /\ oks' = [oks EXCEPT ![r] = @ + 1]
                      /\ cyc' = [cyc EXCEPT ![c] = OnSuccess(cy, store)]
                 ELSE /\ cyc' = [cyc EXCEPT ![c] = OnFailure(cy)]
                      /\ UNCHANGED oks
  /\ UNCHANGED <<now, running, credentials, store, nextId, raised, call>>

\* The assignment r.sent = True left out: the commit writes nothing.
MarkSent_Noop(st, r) == st

\* An UPDATE that sets sent on every row of the table.
MarkSent_All(st, r) ==
  [k \in Ids |-> IF st[k].present THEN [st[k] EXCEPT !.sent = TRUE] ELSE st[k]]

\* The row written back whole, with the column default for subject.
MarkSent_ResetsSubject(st, r) ==
  [st EXCEPT ![r].sent = TRUE, ![r].subject = "Reminder"]

\* The flag flipped instead of set: a second mark clears it again.
MarkSent_Toggle(st, r) == [st EXCEPT ![r].sent = ~@]

\* r.sent = True; the UPDATE that the commit flushes
MarkSent(st, r) == [st EXCEPT ![r].sent = TRUE]

\* db.session.commit() went through: every row of the session expires.
Committed(cy) ==
  NextRow([cy EXCEPT !.expired = TRUE, !.seenSent = FALSE])

\* Lines 147-148 (commitFails: the database raises).  The UPDATE is
\* flushed only when r.sent changed; it matches no row when the row is gone.
Commit(c, commitFails) ==
  /\ c <= Len(cyc)
  /\ cyc[c].pc = "commit"
  /\ LET cy == cyc[c]
         r == Cur(cy)
     IN  IF commitFails
         THEN /\ cyc' = [cyc EXCEPT ![c] = Raise(cy, "commit")]
              /\ raised' = TRUE
              /\ UNCHANGED store
         ELSE IF cy.seenSent
         THEN /\ cyc' = [cyc EXCEPT ![c] = Committed(cy)]
              /\ UNCHANGED <<store, raised>>
         ELSE IF ~Present(store, r)
         THEN /\ cyc' = [cyc EXCEPT ![c] = Raise(cy, "stale")]
              /\ raised' = TRUE
              /\ UNCHANGED store
         ELSE /\ store' = MarkSent(store, r)
              /\ cyc' = [cyc EXCEPT ![c] = Committed(cy)]
              /\ UNCHANGED raised
  /\ UNCHANGED <<now, running, credentials, nextId, oks, netUsed, call>>

\* The job function returns and its instance is released.
Return(c) ==
  /\ c <= Len(cyc)
  /\ cyc[c].pc \in {"done", "except"}
  /\ cyc' = [k \in 1..(Len(cyc) - 1) |-> IF k < c THEN cyc[k] ELSE cyc[k + 1]]
  /\ UNCHANGED <<now, running, credentials, store, nextId, oks, raised,
                  netUsed, call>>

\* ------------------------------------------------------------ process

\* The flag written before the send is confirmed: a process that dies
\* leaves the rows its instances were about to commit stored as sent.
Crash_FlushesPending ==
  /\ running
  /\ running' = FALSE
  /\ cyc' = <<>>
  /\ store' = [r \in Ids |->
                 IF /\ store[r].present
                    /\ \E c \in 1..Len(cyc) :
                          cyc[c].pc = "commit" /\ cyc[c].due[cyc[c].idx] = r
                 THEN [store[r] EXCEPT !.sent = TRUE]
                 ELSE store[r]]
  /\ UNCHANGED <<now, credentials, nextId, oks, raised, netUsed, call>>

\* The process dies: its threads and sessions are gone, the table stays.
Crash ==
  /\ running
  /\ running' = FALSE
  /\ cyc' = <<>>
  /\ UNCHANGED <<now, credentials, store, nextId, oks, raised, netUsed, call>>

\* init_app() of a new process: scheduler.start()
InitApp ==
  /\ ~running
  /\ running' = TRUE
  /\ UNCHANGED <<now, credentials, store, nextId, cyc, oks, raised, netUsed,
                  call>>

\* send_email called on its own with the process's credentials; resp is
\* what the HTTP request ends in, if one is made.
CallSendEmail(resp) ==
  /\ running
  /\ call' = {[resp |-> resp,
               ret |-> send_email(credentials, resp),
               posted |-> Posted(credentials)]}
  /\ UNCHANGED <<now, running, credentials, store, nextId, cyc, oks, raised,
                 netUsed>>

Next ==
  \/ Advance
  \/ \E f \in Forms : PostCreate(f)
  \/ \E f \in Forms : PostReject(f)
  \/ \E r \in Ids : Delete(r)
  \/ Tick
  \/ \E c \in Slots, q \in BOOLEAN : Scan(c, q)
  \/ \E c \in Slots, resp \in Responses : Send(c, resp)
  \/ \E c \in Slots, f \in BOOLEAN : Commit(c, f)
  \/ \E c \in Slots : Return(c)
  \/ Crash
  \/ InitApp

Spec == Init /\ [][Next]_vars

\* Cycles that never overlap, in a process that does not crash, over a
\* table nothing is deleted from: the trigger fires only when no instance
\* of the job is running.
TickSerial == Len(cyc) = 0 /\ Tick

NextSerial ==
  \/ Advance
  \/ \E f \in Forms : PostCreate(f)
  \/ \E f \in Forms : PostReject(f)
  \/ TickSerial
  \/ \E c \in Slots, q \in BOOLEAN : Scan(c, q)
  \/ \E c \in Slots, resp \in Responses : Send(c, resp)
  \/ \E c \in Slots, f \in BOOLEAN : Commit(c, f)
  \/ \E c \in Slots : Return(c)

SpecSerial == Init /\ [][NextSerial]_vars

\* The serial behaviours, with send_email also called on its own for every
\* outcome of the request.
NextSendEmail ==
  \/ NextSerial
  \/ \E resp \in Responses : CallSendEmail(resp)

SpecSendEmail == Init /\ [][NextSendEmail]_vars


\* ------------------------------------------------------------- claims

Range(q) == {q[k] : k \in 1..Len(q)}

Cycles == 1..Len(cyc)

\* The row is in the table with sent = False.
Pending(st, r) == st[r].present /\ ~st[r].sent

\* The row is in the table with sent = True.
Sent(st, r) == st[r].present /\ st[r].sent

\* The instance cy has called send_email for the k-th row of its due list.
CalledAt(cy, k) ==
  \/ k < cy.idx
  \/ k = cy.idx /\ cy.pc = "commit"
  \/ k = cy.idx /\ cy.pc = "except" /\ cy.why \in {"commit", "stale"}

\* The instance cy has called send_email for reminder r.
Called(cy, r) == \E k \in 1..Len(cy.due) : cy.due[k] = r /\ CalledAt(cy, k)

\* This step is a step of the instance c, which was at pc before it.
StepOf(c, pc) ==
  /\ c \in Cycles
  /\ Len(cyc') = Len(cyc)
  /\ cyc[c].pc = pc
  /\ cyc'[c] # cyc[c]

\* This step is the query of instance c, and the query returned.
ScanStep(c) == StepOf(c, "scan") /\ cyc'[c].pc # "except"

\* This step is a call of send_email by instance c.
CallStep(c) == StepOf(c, "send") /\ cyc'[c].pc # "except"

\* This step is a call of send_email by instance c that returned False.
FailStep(c) == CallStep(c) /\ oks' = oks

\* What the query of this step returned.
Selected(c) == IF cyc'[c].pc = "send" THEN Range(cyc'[c].due) ELSE {}

\* C1: no two instances of the job that run at the same time have both
\* selected the same reminder as pending in their scan and both called
\* send_email for it.
C1_NoTwoCyclesSendSame ==
  \A c \in Cycles, d \in Cycles, r \in Ids :
     c # d => ~(Called(cyc[c], r) /\ Called(cyc[d], r))

C3_SentNeverReselected ==
  [][\A c \in Cycles :
       /\ ScanStep(c) => \A r \in Ids : Sent(store, r) => r \notin Selected(c)
       /\ (Len(cyc') = Len(cyc) /\ cyc[c].pc \in {"send", "commit"}
             /\ cyc'[c].pc # "done")
            => cyc'[c].due = cyc[c].due]_vars

\* C3 witness: reminder 1, due no later than reminder 2, is stored as sent
\* and an instance selected reminder 2 alone: its scan came after the commit.
C3_Witness ==
  /\ Sent(store, 1) /\ Pending(store, 2)
  /\ store[1].remind_at_utc <= store[2].remind_at_utc
  /\ \E c \in Cycles : cyc[c].pc = "send" /\ cyc[c].due = <<2>>

\* C4: the scan of a cycle returns exactly the stored reminders with
\* sent = false and remind_at_utc <= now, now being the instant of the scan.
C4_ScanExactlyDuePending ==
  [][\A c \in Cycles :
       ScanStep(c) =>
         \A r \in Ids :
            r \in Selected(c) <=>
              (store[r].present /\ store[r].sent = FALSE
                 /\ store[r].remind_at_utc <= now)]_vars

\* C4 witness: a scan selected reminder 2 and left out reminder 1, which is
\* pending and due only later.
C4_Witness ==
  /\ Pending(store, 1) /\ store[1].remind_at_utc > now
  /\ \E c \in Cycles : cyc[c].pc = "send" /\ cyc[c].idx = 1 /\ cyc[c].due = <<2>>

\* C5: a stored reminder's sent flag changes only from false to true, and
\* only in the step of an instance that is at the commit that follows a
\* successful send_email call for this reminder.
C5_SentOnlySetAfterSuccess ==
  [][\A r \in Ids :
       (store[r].present /\ store'[r].present /\ store'[r].sent # store[r].sent)
         => /\ store[r].sent = FALSE /\ store'[r].sent = TRUE
            /\ oks[r] >= 1
            /\ \E c \in Cycles :
                  StepOf(c, "commit") /\ cyc[c].due[cyc[c].idx] = r]_vars

\* C5 witness: an instance has committed the flag of reminder 1 after one
\* successful send and has gone on to reminder 2.
C5_Witness ==
  /\ Sent(store, 1) /\ oks[1] = 1
  /\ \E c \in Cycles : cyc[c].expired /\ cyc[c].due = <<1, 2>> /\ cyc[c].idx = 2

\* C6: a send_email call that returns failure changes nothing in the store
\* and is not followed by a commit, and the reminder, pending before, is in
\* the result of a scan taken from then on.
C6_FailureLeavesPending ==
  [][\A c \in Cycles :
       FailStep(c) =>
         /\ store' = store
         /\ cyc'[c].pc # "commit"
         /\ LET r == cyc[c].due[cyc[c].idx]
            IN  Pending(store, r) => r \in Range(DueQuery(store', now'))]_vars

\* C6 witness: the send of reminder 1 failed in the older instance, the
\* reminder is still pending, and a younger instance is about to send it.
C6_Witness ==
  /\ Pending(store, 1) /\ oks[1] = 0
  /\ Len(cyc) = 2
  /\ cyc[1].due = <<1, 2>> /\ cyc[1].idx = 2
  /\ cyc[2].pc = "send" /\ cyc[2].due[cyc[2].idx] = 1

\* C7: once send_email has returned success for a reminder, after any
\* number of failures, no further send_email call is made for it: it has
\* been attempted once more than it failed.
C7_NoAttemptAfterSuccess ==
  [][\A r \in Ids :
       oks[r] >= 1 =>
         \A c \in Cycles : ~(CallStep(c) /\ cyc[c].due[cyc[c].idx] = r)]_vars

\* C8: an instance that ran its scan does not end while a reminder of its
\* due list that it has not attempted is still pending.
C8_EveryDueAttempted ==
  \A c \in Cycles :
     cyc[c].pc = "except" =>
       \A k \in 1..Len(cyc[c].due) :
          Pending(store, cyc[c].due[k]) => CalledAt(cyc[c], k)

\* C9: an exception raised while one reminder is processed does not end
\* the cycle while reminders remain after it in the due list.
C9_ExceptionDoesNotEndCycle ==
  \A c \in Cycles :
     (cyc[c].pc = "except" /\ cyc[c].why # "query")
       => cyc[c].idx = Len(cyc[c].due)

\* C10: after send_email returned failure for a reminder of a cycle, every
\* reminder after it in the due list is attempted in the cycle and, when its
\* send succeeded, is marked sent.
C10_FailureDoesNotAbortOthers ==
  \A c \in Cycles :
     (/\ cyc[c].pc = "except"
      /\ \E k \in 1..(cyc[c].idx - 1) : oks[cyc[c].due[k]] = 0)
       => \A j \in cyc[c].idx..Len(cyc[c].due) :
             /\ CalledAt(cyc[c], j)
             /\ store[cyc[c].due[j]].present => store[cyc[c].due[j]].sent

\* C11: a reminder deleted after a cycle's scan selected it and before the
\* cycle commits its sent flag is benign: no error of the vanished row
\* (the UPDATE that matches no row, the read of the expired row) ends the
\* cycle, so no job instance is ever in the handler because of it.
C11_DeleteIsBenign ==
  \A c \in Cycles :
    ~(cyc[c].pc = "except" /\ cyc[c].why \in {"stale", "refresh"})

\* C12: an error raised in a cycle, the failure of the due-set query
\* included, is handled inside send_due_reminders (the instance is at the
\* handler of line 152, from where it returns) and the scheduler keeps
\* running through every step of a job instance; a tick of the running
\* scheduler that starts a job starts it at the query.
C12_CycleErrorContained ==
  [][ /\ \A c \in 1..Len(cyc') :
           cyc'[c].pc \in {"scan", "send", "commit", "done", "except"}
      /\ \A c \in Cycles :
           StepOf(c, cyc[c].pc) => running /\ running'
      /\ Len(cyc') = Len(cyc) + 1
           => /\ running /\ running'
              /\ cyc'[Len(cyc')].pc = "scan" ]_vars

\* A commit raised, the scheduler runs, and the one instance in flight is
\* a new cycle about to scan the store.
C12_Witness ==
  /\ raised /\ running
  /\ Len(cyc) = 1 /\ cyc[1].pc = "scan"

\* C13: at most max_instances (3) instances of the job execute at the same
\* time; while 3 are in flight no step, a tick included, starts another;
\* and a step starts at most one instance, so skipped ticks are not made
\* up one run per tick when a slot is released.
C13_AtMostMaxInstances ==
  [][ /\ Len(cyc) <= max_instances /\ Len(cyc') <= max_instances
      /\ Len(cyc) = max_instances => Len(cyc') <= Len(cyc)
      /\ Len(cyc') <= Len(cyc) + 1
      /\ (\E c \in Cycles : cyc[c].pc \in {"done", "except"}
                            /\ Len(cyc') < Len(cyc) /\ running')
           => Len(cyc') = Len(cyc) - 1 ]_vars

\* Three instances are in flight, none of them finished.
C13_Witness ==
  /\ Len(cyc) = max_instances
  /\ \A c \in Cycles : cyc[c].pc \in {"scan", "send", "commit"}

\* C14: send_email always returns a boolean to its caller: True exactly
\* when the credentials are set and the request ends in 200 or 202, False
\* for a raised request error, for any other status and for missing
\* credentials; without credentials no request is made, by a call on its own
\* or by the job, and no call of the job succeeds.
C14_SendEmailTotal ==
  /\ \A k \in call :
       /\ k.ret \in BOOLEAN
       /\ k.ret <=> (credentials /\ k.resp \in {200, 202})
       /\ k.posted <=> credentials
  /\ ~credentials => (~netUsed /\ \A r \in Ids : oks[r] = 0)

\* With credentials set the request raised and send_email returned False,
\* after the job had sent a reminder.
C14_Witness ==
  /\ credentials
  /\ \E k \in call : k.resp = 0 /\ ~k.ret /\ k.posted
  /\ \E r \in Ids : oks[r] = 1

\* C15: when the process dies while an instance is between a successful
\* send_email and its commit, the reminder, if it was stored with
\* sent = false, still is after the crash, and the query of the next cycle
\* selects it, so it is sent again.
C15_CrashBeforeCommitResends ==
  [][ (running /\ ~running')
        => \A c \in Cycles :
             (cyc[c].pc = "commit" /\ Pending(store, Cur(cyc[c])))
               => /\ Pending(store', Cur(cyc[c]))
                  /\ store'[Cur(cyc[c])] = store[Cur(cyc[c])]
                  /\ Cur(cyc[c]) \in Range(DueQuery(store', now')) ]_vars

\* After a crash: the only instance in flight has sent reminder 1, still
\* stored with sent = false, a second time, no commit having raised.
C15_Witness ==
  /\ running /\ ~raised
  /\ Len(cyc) = 1 /\ cyc[1].pc = "commit" /\ Cur(cyc[1]) = 1
  /\ Pending(store, 1)
  /\ oks[1] = 2

\* C16: a row appears in the table only with a due time strictly later
\* than the instant of its creation, with sent = false, a valid email and
\* a message, and no step creates more than that one row; and send_email
\* is never called for a stored reminder before its due time.
C16_CreatedInFutureSentWhenDue ==
  [][ /\ \A r \in Ids :
           (~store[r].present /\ store'[r].present)
             => /\ store'[r].remind_at_utc > now
                /\ store'[r].sent = FALSE
                /\ valid_email(store'[r].email)
                /\ store'[r].message # ""
                /\ r = nextId /\ nextId' = nextId + 1
                /\ \A q \in Ids \ {r} : store'[q] = store[q]
      /\ \A c \in Cycles :
           (CallStep(c) /\ Present(store, Cur(cyc[c])))
             => store[Cur(cyc[c])].remind_at_utc <= now ]_vars

\* Reminder 1 was sent at the instant it became due, while reminder 2,
\* created for a later time, is stored unsent.
C16_Witness ==
  /\ Present(store, 1) /\ store[1].remind_at_utc = now /\ oks[1] >= 1
  /\ Pending(store, 2) /\ store[2].remind_at_utc > now /\ oks[2] = 0

\* C17: a stored reminder keeps its email, subject, message and
\* remind_at_utc (and its id, the key it is stored under) through every
\* step: only sent changes; and the commit of a cycle changes no row
\* other than the one the cycle is at.
C17_OnlySentChanges ==
  [][ /\ \A r \in Ids :
           (store[r].present /\ store'[r].present)
             => /\ store'[r].email = store[r].email
                /\ store'[r].subject = store[r].subject
                /\ store'[r].message = store[r].message
                /\ store'[r].remind_at_utc = store[r].remind_at_utc
      /\ \A c \in Cycles :
           StepOf(c, "commit")
             => \A q \in Ids \ {Cur(cyc[c])} : store'[q] = store[q]
      /\ \A c \in Cycles :
           (StepOf(c, "scan") \/ StepOf(c, "send")) => store' = store ]_vars

\* Reminder 1, created with its own subject, has been marked sent while
\* reminder 2 is stored unsent.
C17_Witness ==
  /\ Sent(store, 1) /\ store[1].subject = "s"
  /\ Pending(store, 2)

\* C18: when an instance commits sent = true for a reminder that is
\* already stored with sent = true, the table after the commit equals the
\* table before it, and the instance goes on unless the database itself
\* failed the commit: marking the row raises nothing.
C18_SecondMarkIsNoop ==
  [][ \A c \in Cycles :
        (StepOf(c, "commit") /\ Sent(store, Cur(cyc[c])))
          => /\ store' = store
             /\ Sent(store', Cur(cyc[c]))
             /\ cyc'[c].pc = "except" => cyc'[c].why = "commit" ]_vars

\* Two overlapping instances have both sent reminder 1 and both committed
\* its flag, no commit having raised, and are now at reminder 2.
C18_Witness ==
  /\ ~raised /\ Sent(store, 1) /\ oks[1] = 2 /\ oks[2] = 0
  /\ Len(cyc) = 2
  /\ \A c \in Cycles :
       cyc[c].due = <<1, 2>> /\ cyc[c].idx = 2 /\ cyc[c].expired

\* C19: a cycle decides once, at its query, which reminders it sends: the
\* rows it selects exist and are due at the instant of the query, the list
\* stays as selected while the cycle goes through it, and neither the
\* clock moving on nor a reminder being created changes any cycle in
\* flight; so a reminder that becomes due or is created after the query is
\* not sent by this cycle.
C19_EligibilityFixedAtScan ==
  [][ /\ \A c \in Cycles :
           /\ ScanStep(c)
                => \A r \in Selected(c) :
                     r < nextId /\ store[r].remind_at_utc <= now
           /\ (StepOf(c, "send") \/ StepOf(c, "commit"))
                => \/ cyc'[c].pc \in {"done", "except"}
                   \/ cyc'[c].due = cyc[c].due
           /\ CallStep(c) => Cur(cyc[c]) \in Range(cyc[c].due)
      /\ (now' # now \/ nextId' # nextId) => cyc' = cyc ]_vars

\* The one cycle in flight selected reminder 1 only; reminder 2 is due and
\* unsent now, and has not been sent.
C19_Witness ==
  /\ Len(cyc) = 1 /\ cyc[1].pc \in {"send", "commit"} /\ cyc[1].due = <<1>>
  /\ Pending(store, 2) /\ store[2].remind_at_utc <= now /\ oks[2] = 0
  /\ store[1].remind_at_utc < store[2].remind_at_utc

\* C20: the flag of a reminder is committed right after its own
\* successful send, before the loop goes on: a successful send is followed
\* by the commit for the same row, a commit that goes through leaves the
\* row stored as sent, an exception that ends the cycle undoes nothing
\* that is stored, and a row stored as sent stays so; the due list holds
\* no reminder twice and the loop only moves forward, so a cycle attempts
\* each reminder of its list at most once.
C20_CommittedPerReminder ==
  [][ /\ \A c \in Cycles :
           /\ (CallStep(c) /\ oks' # oks)
                => cyc'[c].pc = "commit" /\ cyc'[c].idx = cyc[c].idx
           /\ (StepOf(c, "commit") /\ cyc'[c].pc # "except")
                => (store'[Cur(cyc[c])].present => store'[Cur(cyc[c])].sent)
           /\ (StepOf(c, cyc[c].pc) /\ cyc'[c].pc = "except")
                => store' = store
           /\ ((StepOf(c, "send") \/ StepOf(c, "commit"))
                 /\ cyc'[c].pc = "send")
                => cyc'[c].idx = cyc[c].idx + 1
           /\ cyc[c].pc \in {"send", "commit"}
                => \A i \in 1..Len(cyc[c].due) : \A j \in 1..Len(cyc[c].due) :
                     i # j => cyc[c].due[i] # cyc[c].due[j]
      /\ \A r \in Ids :
           (Sent(store, r) /\ store'[r].present) => store'[r].sent ]_vars

\* A cycle sent reminder 1 and committed its flag, then ended in the
\* handler at reminder 2: reminder 1 is stored as sent, sent once.
C20_Witness ==
  \E c \in Cycles :
    /\ cyc[c].pc = "except" /\ cyc[c].why \in {"commit", "stale", "refresh"}
    /\ cyc[c].due = <<1, 2>> /\ cyc[c].idx = 2 /\ cyc[c].expired
    /\ Sent(store, 1) /\ oks[1] = 1
    /\ Len(cyc) = 1

====
